---- MODULE Spec2Model ----
(***************************************************************************)
(* Model of the investment tracker backend (src/src/backend.py): the SQLite *)
(* store (assets, transactions, price_history), the operations of           *)
(* InvestmentTracker on it, the price resolver and the portfolio summary.    *)
(*                                                                           *)
(* Numbers.  REAL columns and float arguments are fixed-point integers: an   *)
(* amount, a price or a sum of money is a whole number of the smallest unit  *)
(* the model distinguishes.  Products and sums are exact; the two places     *)
(* where the code divides (currency conversion, profit_loss_percent) are     *)
(* modelled by the operators Quot and Pct below.                             *)
(*                                                                           *)
(* Columns that no operation ever reads back to take a decision (id, name,   *)
(* platform, last_updated, transaction_date, notes, date) are left out of    *)
(* the rows; tables are sequences in rowid order.                            *)
(*                                                                           *)
(* The database file is assumed to be available: sqlite3 errors are not      *)
(* modelled, but for "database is locked" between calls that overlap.        *)
(* SQLite does not enforce the FOREIGN KEY clauses of the schema             *)
(* (no PRAGMA foreign_keys), so they constrain nothing here either.          *)
(*                                                                           *)
(* threads and write_lock are the calls made at the same time from several   *)
(* threads, each on its own connection; they change only in SpecThreads.     *)
(***************************************************************************)
EXTENDS Integers, Sequences, FiniteSets, TLC

VARIABLES assets, transactions, price_history,
          crypto_symbols_cache, cache_timestamp, now, last,
          threads, write_lock

conns == <<threads, write_lock>>
vars  == <<assets, transactions, price_history,
           crypto_symbols_cache, cache_timestamp, now, last,
           threads, write_lock>>

(***************************************************************************)
(* Bounds of the model.                                                    *)
(***************************************************************************)
MaxTx == 2
MaxHist == 2
MaxHours == 25

(***************************************************************************)
(* Python's None / a present value.                                        *)
(***************************************************************************)
None == <<>>
Some(x) == <<x>>
IsNone(o) == o = <<>>
Val(o) == o[1]

(***************************************************************************)
(* str.upper() on the symbols the model uses.                              *)
(***************************************************************************)
Symbols == {"BTC", "btc", "AAPL"}
Upper(s) == CASE s = "btc" -> "BTC"
              [] s = "aapl" -> "AAPL"
              [] s = "usd" -> "USD"
              [] s = "xyz" -> "XYZ"
              [] OTHER -> s

AssetTypes == {"stock", "crypto"}
TxTypes == {"buy", "sell", "dividend", "fee"}

(***************************************************************************)
(* Table helpers: the WHERE clauses the statements use.                    *)
(***************************************************************************)
AssetSymbols(tbl) == {tbl[i].symbol : i \in DOMAIN tbl}

\* DELETE FROM assets WHERE symbol = sym
DeleteAssetRows(tbl, sym) == SelectSeq(tbl, LAMBDA r : r.symbol # sym)

\* DELETE FROM transactions / price_history WHERE asset_symbol = sym
DeleteRowsOf(tbl, sym) == SelectSeq(tbl, LAMBDA r : r.asset_symbol # sym)

\* InsertOrReplaceAsset as a plain INSERT on a table without UNIQUE(symbol)
InsertOrReplaceAsset_NoReplace(tbl, sym, asset_type) ==
    Append(tbl, [symbol |-> sym, asset_type |-> asset_type, current_price |-> 0])

\* INSERT OR REPLACE INTO assets (symbol, name, asset_type, platform):
\* symbol is UNIQUE, so a row with the same symbol is deleted and the new
\* row is inserted with a new rowid and the column default current_price 0.
InsertOrReplaceAsset(tbl, sym, asset_type) ==
    Append(DeleteAssetRows(tbl, sym),
           [symbol |-> sym, asset_type |-> asset_type, current_price |-> 0])

\* UPDATE assets SET current_price = price WHERE symbol = sym
UpdateCurrentPrice(tbl, sym, price) ==
    [i \in DOMAIN tbl |->
        IF tbl[i].symbol = sym THEN [tbl[i] EXCEPT !.current_price = price]
        ELSE tbl[i]]

\* INSERT INTO price_history (asset_symbol, price)
InsertPriceHistory(tbl, sym, price) ==
    Append(tbl, [asset_symbol |-> sym, price |-> price])

(***************************************************************************)
(* The crypto symbol mapping (get_available_crypto_symbols).               *)
(***************************************************************************)
priority_mapping ==
    [BTC |-> "bitcoin", ETH |-> "ethereum", BNB |-> "binancecoin",
     ADA |-> "cardano", SOL |-> "solana", DOT |-> "polkadot",
     MATIC |-> "matic-network", AVAX |-> "avalanche-2", LINK |-> "chainlink",
     UNI |-> "uniswap", LTC |-> "litecoin", XRP |-> "ripple",
     DOGE |-> "dogecoin", ATOM |-> "cosmos", VET |-> "vechain",
     ALGO |-> "algorand", ICP |-> "internet-computer", FIL |-> "filecoin",
     TRX |-> "tron", ETC |-> "ethereum-classic", XLM |-> "stellar",
     SHIB |-> "shiba-inu"]

fallback_map ==
    [BTC |-> "bitcoin", ETH |-> "ethereum", ADA |-> "cardano",
     DOT |-> "polkadot", LTC |-> "litecoin", XRP |-> "ripple",
     DOGE |-> "dogecoin", BNB |-> "binancecoin", SOL |-> "solana",
     MATIC |-> "matic-network", AVAX |-> "avalanche-2"]

\* len(symbol) <= 10 and symbol.isalnum(), on the listing symbols of the model
LongSymbols == {"LONGSYMBOL11"}
NonAlnumSymbols == {"A-B"}
Reasonable(symbol) == symbol \notin LongSymbols /\ symbol \notin NonAlnumSymbols

\* MergeCoins in which a later entry of the listing replaces an earlier one
RECURSIVE MergeCoins_LastWins(_, _)
MergeCoins_LastWins(crypto_map, coins) ==
    IF coins = <<>> THEN crypto_map
    ELSE LET symbol == Upper(Head(coins).symbol)
         IN MergeCoins_LastWins(
              IF Reasonable(symbol)
              THEN (symbol :> Head(coins).id) @@ crypto_map
              ELSE crypto_map,
              Tail(coins))

\* the loop "for coin in coins" over the listing
RECURSIVE MergeCoins(_, _)
MergeCoins(crypto_map, coins) ==
    IF coins = <<>> THEN crypto_map
    ELSE LET symbol == Upper(Head(coins).symbol)
         IN MergeCoins(
              IF Reasonable(symbol) /\ symbol \notin DOMAIN crypto_map
              THEN crypto_map @@ (symbol :> Head(coins).id)
              ELSE crypto_map,
              Tail(coins))

\* (datetime.now() - ts).seconds: the seconds field of a timedelta, which
\* leaves out the days
TimedeltaSeconds(delta) == delta % (24 * 3600)

CacheTTL == 3600

\* CacheUsable with half an hour for the hour
CacheUsable_HalfHour(c, ts, t) ==
    /\ ~IsNone(c)
    /\ ~IsNone(ts)
    /\ TimedeltaSeconds(t - Val(ts)) < 1800

CacheUsable(c, ts, t) ==
    /\ ~IsNone(c)
    /\ ~IsNone(ts)
    /\ TimedeltaSeconds(t - Val(ts)) < CacheTTL

\* GetAvailableCryptoSymbols answering with the expired cache, when there
\* is one, if the listing fails
GetAvailableCryptoSymbols_StaleOnFailure(c, ts, t, listing) ==
    IF CacheUsable(c, ts, t)
    THEN [map |-> Val(c), cache |-> c, timestamp |-> ts, fetched |-> FALSE]
    ELSE IF ~listing.raised /\ listing.status = 200
    THEN LET crypto_map == MergeCoins(priority_mapping, listing.coins)
         IN [map |-> crypto_map, cache |-> Some(crypto_map),
             timestamp |-> Some(t), fetched |-> TRUE]
    ELSE [map |-> IF IsNone(c) THEN fallback_map ELSE Val(c), cache |-> c,
          timestamp |-> ts, fetched |-> TRUE]

\* get_available_crypto_symbols: c, ts are the cache fields, t the clock,
\* listing the answer of /coins/list ([raised, status, coins]; raised when
\* requests.get, response.json() or the loop raises).  Result: the mapping
\* returned and the cache fields afterwards.
GetAvailableCryptoSymbols(c, ts, t, listing) ==
    IF CacheUsable(c, ts, t)
    THEN [map |-> Val(c), cache |-> c, timestamp |-> ts, fetched |-> FALSE]
    ELSE IF ~listing.raised /\ listing.status = 200
    THEN LET crypto_map == MergeCoins(priority_mapping, listing.coins)
         IN [map |-> crypto_map, cache |-> Some(crypto_map),
             timestamp |-> Some(t), fetched |-> TRUE]
    ELSE [map |-> fallback_map, cache |-> c, timestamp |-> ts, fetched |-> TRUE]

(***************************************************************************)
(* The price resolver (first part of update_single_asset_price).           *)
(*                                                                         *)
(* A price request answers [raised, status, eur]: raised when requests.get *)
(* or response.json() raises, eur = None when the body lacks the coin id   *)
(* or its 'eur' key.                                                       *)
(***************************************************************************)
PriceInBody(resp) == IF resp.status = 200 THEN resp.eur ELSE None

\* time.sleep arguments, in tenths of a second
RequestDelay == 12
RetryDelay == 50
BatchDelay == 20
Sleep(tenths) == "sleep" \o ToString(tenths)

\* CryptoPrice retrying after every response that is not a 200
CryptoPrice_RetriesOnAnyError(symbol, crypto_map, r1, r2) ==
    IF symbol \notin DOMAIN crypto_map
    THEN [price |-> None, trace |-> <<>>]
    ELSE IF r1.raised
    THEN [price |-> None, trace |-> <<Sleep(RequestDelay), "request">>]
    ELSE IF r1.status = 200
    THEN [price |-> r1.eur, trace |-> <<Sleep(RequestDelay), "request">>]
    ELSE [price |-> IF r2.raised THEN None ELSE PriceInBody(r2),
          trace |-> <<Sleep(RequestDelay), "request",
                      Sleep(RetryDelay), "request">>]

\* CryptoPrice requesting the price without looking the symbol up
CryptoPrice_RequestsUnmapped(symbol, crypto_map, r1, r2) ==
    IF r1.raised
    THEN [price |-> None, trace |-> <<Sleep(RequestDelay), "request">>]
    ELSE IF r1.status = 200
    THEN [price |-> r1.eur, trace |-> <<Sleep(RequestDelay), "request">>]
    ELSE IF r1.status = 429
    THEN [price |-> IF r2.raised THEN None ELSE PriceInBody(r2),
          trace |-> <<Sleep(RequestDelay), "request",
                      Sleep(RetryDelay), "request">>]
    ELSE [price |-> None, trace |-> <<Sleep(RequestDelay), "request">>]

\* lines 233-259; result: the price (or None) and the trace of the sleeps and
\* price requests made, in order
CryptoPrice(symbol, crypto_map, r1, r2) ==
    IF symbol \notin DOMAIN crypto_map
    THEN [price |-> None, trace |-> <<>>]
    ELSE IF r1.raised
    THEN [price |-> None, trace |-> <<Sleep(RequestDelay), "request">>]
    ELSE IF r1.status = 200
    THEN [price |-> r1.eur, trace |-> <<Sleep(RequestDelay), "request">>]
    ELSE IF r1.status = 429
    THEN [price |-> IF r2.raised THEN None ELSE PriceInBody(r2),
          trace |-> <<Sleep(RequestDelay), "request",
                      Sleep(RetryDelay), "request">>]
    ELSE [price |-> None, trace |-> <<Sleep(RequestDelay), "request">>]

(***************************************************************************)
(* Currency conversion.  An exchange rate is a whole number of hundredths  *)
(* (108 is 1.08); the float quotient and product are cut to the unit.      *)
(***************************************************************************)
DivideByRate(price, rate) == (price * 100) \div rate
MultiplyByRate(price, rate) == (price * rate) \div 100

IsCurrency(currency, code) == ~IsNone(currency) /\ Upper(Val(currency)) = code

\* lines 282-293
ConversionPair(currency) ==
    IF IsCurrency(currency, "USD") THEN "EURUSD=X"
    ELSE IF IsCurrency(currency, "GBP") THEN "EURGBP=X"
    ELSE IF IsCurrency(currency, "CHF") THEN "EURCHF=X"
    ELSE IF IsCurrency(currency, "JPY") THEN "EURJPY=X"
    ELSE "EURUSD=X"

\* ConvertPrimary dividing by the rate for every pair
ConvertPrimary_AlwaysDivides(price_original, currency, rates) ==
    LET conversion_pair == ConversionPair(currency)
        rate == rates[conversion_pair]
    IN IF rate.raised THEN price_original
       ELSE IF ~IsNone(rate.close)
       THEN DivideByRate(price_original, Val(rate.close))
       ELSE IF IsCurrency(currency, "USD") THEN MultiplyByRate(price_original, 92)
       ELSE IF IsCurrency(currency, "GBP") THEN MultiplyByRate(price_original, 117)
       ELSE MultiplyByRate(price_original, 92)

\* lines 281-322: rate is the answer of the pair's history
\* ([raised, close]: close = None when the frame is empty)
ConvertPrimary(price_original, currency, rates) ==
    LET conversion_pair == ConversionPair(currency)
        rate == rates[conversion_pair]
    IN IF rate.raised THEN price_original
       ELSE IF ~IsNone(rate.close)
       THEN IF conversion_pair \in {"EURGBP=X", "EURCHF=X"}
            THEN MultiplyByRate(price_original, Val(rate.close))
            ELSE DivideByRate(price_original, Val(rate.close))
       ELSE IF IsCurrency(currency, "USD") THEN MultiplyByRate(price_original, 92)
       ELSE IF IsCurrency(currency, "GBP") THEN MultiplyByRate(price_original, 117)
       ELSE MultiplyByRate(price_original, 92)

\* lines 268-322: the historical close
PrimaryPrice(close, currency, rates) ==
    IF IsNone(close) THEN None
    ELSE IF Val(close) > 0
    THEN IF IsCurrency(currency, "EUR") THEN close
         ELSE Some(ConvertPrimary(Val(close), currency, rates))
    ELSE None

\* lines 327-334: the quote fields in their order
QuotePrice(info) ==
    IF ~IsNone(info.currentPrice) THEN info.currentPrice
    ELSE IF ~IsNone(info.regularMarketPrice) THEN info.regularMarketPrice
    ELSE IF ~IsNone(info.bid) /\ Val(info.bid) > 0 THEN info.bid
    ELSE None

\* lines 337-356
ConvertQuote(price_raw, currency, rates) ==
    LET rate == rates["EURUSD=X"]
    IN IF rate.raised THEN price_raw
       ELSE IF ~IsNone(rate.close) THEN DivideByRate(price_raw, Val(rate.close))
       ELSE MultiplyByRate(price_raw, 92)

SecondaryPrice(info, currency, rates) ==
    LET price_raw == QuotePrice(info)
    IN IF IsNone(price_raw) THEN None
       ELSE IF IsCurrency(currency, "EUR") THEN price_raw
       ELSE Some(ConvertQuote(Val(price_raw), currency, rates))

\* lines 262-359: y is what yfinance answers for the ticker: [raised (info or
\* history raises), currency, close, info, rates]
StockPrice(y) ==
    IF y.raised THEN None
    ELSE LET price == PrimaryPrice(y.close, y.currency, y.rates)
         IN IF IsNone(price) THEN SecondaryPrice(y.info, y.currency, y.rates)
            ELSE price

(***************************************************************************)
(* update_single_asset_price as a function of the tracker's state.         *)
(* st = [assets, price_history, cache, timestamp]; t is the clock; env is   *)
(* what the providers answer during the call: [listing, r1, r2, y].        *)
(***************************************************************************)
\* lines 227-359
ResolvePrice(st, t, symbol, asset_type, env) ==
    IF asset_type = "crypto"
    THEN LET got == GetAvailableCryptoSymbols(st.cache, st.timestamp, t, env.listing)
             res == CryptoPrice(symbol, got.map, env.r1, env.r2)
         IN [price |-> res.price, cache |-> got.cache, timestamp |-> got.timestamp,
             trace |-> (IF got.fetched THEN <<"listing">> ELSE <<>>) \o res.trace]
    ELSE [price |-> StockPrice(env.y), cache |-> st.cache,
          timestamp |-> st.timestamp, trace |-> <<"ticker">>]

\* ShouldSave with price >= 0 for price > 0
ShouldSave_ZeroSaved(price) == ~IsNone(price) /\ Val(price) >= 0

\* lines 361-384: the price is saved only if there is one and it is > 0
ShouldSave(price) == ~IsNone(price) /\ Val(price) > 0

UpdateSingleAssetPriceStep(st, t, symbol, asset_type, env) ==
    LET r == ResolvePrice(st, t, symbol, asset_type, env)
    IN IF ShouldSave(r.price)
       THEN [st |-> [assets |-> UpdateCurrentPrice(st.assets, symbol, Val(r.price)),
                     price_history |->
                         InsertPriceHistory(st.price_history, symbol, Val(r.price)),
                     cache |-> r.cache, timestamp |-> r.timestamp],
             ret |-> TRUE, price |-> r.price, trace |-> r.trace]
       ELSE [st |-> [st EXCEPT !.cache = r.cache, !.timestamp = r.timestamp],
             ret |-> FALSE, price |-> r.price, trace |-> r.trace]

\* BatchLoop leaving the loop at the first resolution that fails
RECURSIVE BatchLoop_StopsAtFailure(_, _, _, _, _, _, _)
BatchLoop_StopsAtFailure(st, t, rows, envs, results, crypto_count, trace) ==
    IF rows = <<>> THEN [st |-> st, results |-> results, trace |-> trace]
    ELSE LET row == Head(rows)
             is_crypto == row.asset_type = "crypto"
             count == IF is_crypto THEN crypto_count + 1 ELSE crypto_count
             delay == IF is_crypto /\ count > 1 THEN <<Sleep(BatchDelay)>> ELSE <<>>
             r == UpdateSingleAssetPriceStep(st, t, row.symbol, row.asset_type,
                                             Head(envs))
         IN IF ~r.ret
            THEN [st |-> r.st, results |-> (row.symbol :> r.ret) @@ results,
                  trace |-> trace \o delay \o <<row.symbol>> \o r.trace]
            ELSE BatchLoop_StopsAtFailure(r.st, t, Tail(rows), Tail(envs),
                      (row.symbol :> r.ret) @@ results, count,
                      trace \o delay \o <<row.symbol>> \o r.trace)

\* BatchLoop sleeping before every crypto asset, the first included
RECURSIVE BatchLoop_DelaysFirst(_, _, _, _, _, _, _)
BatchLoop_DelaysFirst(st, t, rows, envs, results, crypto_count, trace) ==
    IF rows = <<>> THEN [st |-> st, results |-> results, trace |-> trace]
    ELSE LET row == Head(rows)
             is_crypto == row.asset_type = "crypto"
             count == IF is_crypto THEN crypto_count + 1 ELSE crypto_count
             delay == IF is_crypto /\ count > 0 THEN <<Sleep(BatchDelay)>> ELSE <<>>
             r == UpdateSingleAssetPriceStep(st, t, row.symbol, row.asset_type,
                                             Head(envs))
         IN BatchLoop_DelaysFirst(r.st, t, Tail(rows), Tail(envs),
                      (row.symbol :> r.ret) @@ results, count,
                      trace \o delay \o <<row.symbol>> \o r.trace)

\* lines 143-151: the loop of update_asset_prices over the rows selected
RECURSIVE BatchLoop(_, _, _, _, _, _, _)
BatchLoop(st, t, rows, envs, results, crypto_count, trace) ==
    IF rows = <<>> THEN [st |-> st, results |-> results, trace |-> trace]
    ELSE LET row == Head(rows)
             is_crypto == row.asset_type = "crypto"
             count == IF is_crypto THEN crypto_count + 1 ELSE crypto_count
             delay == IF is_crypto /\ count > 1 THEN <<Sleep(BatchDelay)>> ELSE <<>>
             r == UpdateSingleAssetPriceStep(st, t, row.symbol, row.asset_type,
                                             Head(envs))
         IN BatchLoop(r.st, t, Tail(rows), Tail(envs),
                      (row.symbol :> r.ret) @@ results, count,
                      trace \o delay \o <<row.symbol>> \o r.trace)

Current == [assets |-> assets, price_history |-> price_history,
            cache |-> crypto_symbols_cache, timestamp |-> cache_timestamp]

Install(st) ==
    /\ assets' = st.assets
    /\ price_history' = st.price_history
    /\ crypto_symbols_cache' = st.cache
    /\ cache_timestamp' = st.timestamp

(***************************************************************************)
(* get_portfolio_summary (lines 409-437).                                  *)
(***************************************************************************)
\* CaseAmount with the ELSE branch counting the amount
CaseAmount_CountsOthers(t) ==
    IF t.transaction_type = "sell" THEN -t.amount ELSE t.amount

\* CASE WHEN t.transaction_type = 'buy' THEN t.amount
\*      WHEN t.transaction_type = 'sell' THEN -t.amount ELSE 0 END
CaseAmount(t) ==
    IF t.transaction_type = "buy" THEN t.amount
    ELSE IF t.transaction_type = "sell" THEN -t.amount
    ELSE 0

\* CaseInvested with the fees of a sell added to the value removed
CaseInvested_SellFeesAdded(t) ==
    IF t.transaction_type = "buy" THEN t.total_value + t.fees
    ELSE IF t.transaction_type = "sell" THEN -(t.total_value + t.fees)
    ELSE 0

\* CASE WHEN t.transaction_type = 'buy' THEN t.total_value + t.fees
\*      WHEN t.transaction_type = 'sell' THEN -(t.total_value - t.fees) ELSE 0 END
CaseInvested(t) ==
    IF t.transaction_type = "buy" THEN t.total_value + t.fees
    ELSE IF t.transaction_type = "sell" THEN -(t.total_value - t.fees)
    ELSE 0

\* assets a LEFT JOIN transactions t ON a.symbol = t.asset_symbol, for one
\* row a: the transactions joined to it (none: one row of NULLs, which SUM
\* skips and COALESCE turns into 0)
Joined(a, txs) == SelectSeq(txs, LAMBDA t : a.symbol = t.asset_symbol)

RECURSIVE SumAmount(_)
SumAmount(txs) ==
    IF txs = <<>> THEN 0 ELSE CaseAmount(Head(txs)) + SumAmount(Tail(txs))

RECURSIVE SumInvested(_)
SumInvested(txs) ==
    IF txs = <<>> THEN 0 ELSE CaseInvested(Head(txs)) + SumInvested(Tail(txs))

\* GROUP BY a.symbol, a.name, a.asset_type, a.platform, a.current_price: the
\* joined rows of all the asset rows with the same grouped columns
RECURSIVE GroupRows(_, _, _)
GroupRows(key, tbl, txs) ==
    IF tbl = <<>> THEN <<>>
    ELSE (IF Head(tbl) = key THEN Joined(Head(tbl), txs) ELSE <<>>)
         \o GroupRows(key, Tail(tbl), txs)

Abs(n) == IF n < 0 THEN -n ELSE n

\* n / d rounded to the nearest whole number, halves to the even one (numpy
\* round); d # 0
RoundDiv(n, d) ==
    LET q == Abs(n) \div Abs(d)
        r == Abs(n) % Abs(d)
        m == IF 2 * r < Abs(d) THEN q
             ELSE IF 2 * r > Abs(d) THEN q + 1
             ELSE IF q % 2 = 0 THEN q ELSE q + 1
    IN IF (n < 0) = (d < 0) THEN m ELSE -m

\* (profit_loss / total_invested * 100).round(2) on float64 columns: the
\* result in hundredths of a percent, or what IEEE division by zero gives
Pct(profit_loss, total_invested) ==
    IF total_invested # 0
    THEN [kind |-> "number", hundredths |-> RoundDiv(profit_loss * 10000, total_invested)]
    ELSE IF profit_loss > 0 THEN [kind |-> "inf", hundredths |-> 0]
    ELSE IF profit_loss < 0 THEN [kind |-> "-inf", hundredths |-> 0]
    ELSE [kind |-> "nan", hundredths |-> 0]

\* one row of the query for a group, with the columns added by lines 432-434
Holding(key, tbl, txs) ==
    LET rows == GroupRows(key, tbl, txs)
        total_amount == SumAmount(rows)
        total_invested == SumInvested(rows)
        current_value == total_amount * key.current_price
        profit_loss == current_value - total_invested
    IN [symbol |-> key.symbol, asset_type |-> key.asset_type,
        current_price |-> key.current_price,
        total_amount |-> total_amount, total_invested |-> total_invested,
        current_value |-> current_value, profit_loss |-> profit_loss,
        profit_loss_percent |-> Pct(profit_loss, total_invested)]

\* SummaryRows with HAVING total_amount >= 0
RECURSIVE SummaryRows_HavingNonNegative(_, _, _, _)
SummaryRows_HavingNonNegative(rest, seen, tbl, txs) ==
    IF rest = <<>> THEN <<>>
    ELSE LET key == Head(rest)
             h == Holding(key, tbl, txs)
         IN (IF key \notin seen /\ h.total_amount >= 0 THEN <<h>> ELSE <<>>)
            \o SummaryRows_HavingNonNegative(Tail(rest), seen \cup {key}, tbl, txs)

\* the groups in the order of their first rows, HAVING total_amount > 0
RECURSIVE SummaryRows(_, _, _, _)
SummaryRows(rest, seen, tbl, txs) ==
    IF rest = <<>> THEN <<>>
    ELSE LET key == Head(rest)
             h == Holding(key, tbl, txs)
         IN (IF key \notin seen /\ h.total_amount > 0 THEN <<h>> ELSE <<>>)
            \o SummaryRows(Tail(rest), seen \cup {key}, tbl, txs)

get_portfolio_summary(tbl, txs) == SummaryRows(tbl, {}, tbl, txs)

(***************************************************************************)
(* The operations.  last records the call just made: its name, arguments   *)
(* and return value, and for the price operations the price resolved and   *)
(* the trace of sleeps and requests.                                       *)
(***************************************************************************)
NoCall == [op |-> "none"]

\* add_asset whose REPLACE takes the transactions of the replaced row with it
add_asset_ReplaceCascades(symbol, asset_type, env) ==
    LET inserted == [Current EXCEPT
                        !.assets = InsertOrReplaceAsset(assets, Upper(symbol), asset_type)]
        r == UpdateSingleAssetPriceStep(inserted, now, Upper(symbol), asset_type, env)
    IN /\ Install(r.st)
       /\ transactions' = DeleteRowsOf(transactions, Upper(symbol))
       /\ UNCHANGED now
       /\ last' = [op |-> "add_asset", symbol |-> symbol, asset_type |-> asset_type,
                   ret |-> TRUE, refreshed |-> r.ret]

\* lines 67-86
add_asset(symbol, asset_type, env) ==
    LET inserted == [Current EXCEPT
                        !.assets = InsertOrReplaceAsset(assets, Upper(symbol), asset_type)]
        r == UpdateSingleAssetPriceStep(inserted, now, Upper(symbol), asset_type, env)
    IN /\ Install(r.st)
       /\ UNCHANGED <<transactions, now>>
       /\ last' = [op |-> "add_asset", symbol |-> symbol, asset_type |-> asset_type,
                   ret |-> TRUE, refreshed |-> r.ret]

\* lines 114-122: the row add_transaction inserts
NewTransaction(asset_symbol, transaction_type, amount, price_per_unit, fees) ==
    [asset_symbol |-> Upper(asset_symbol), transaction_type |-> transaction_type,
     amount |-> amount, price_per_unit |-> price_per_unit,
     total_value |-> amount * price_per_unit, fees |-> fees]

\* Accepted without the lookup of the asset
Accepted_NoAssetCheck(asset_symbol, amount, price_per_unit) ==
    ~(amount <= 0) /\ ~(price_per_unit <= 0)

\* Accepted with price_per_unit < 0 for price_per_unit <= 0
Accepted_ZeroPrice(asset_symbol, amount, price_per_unit) ==
    /\ Upper(asset_symbol) \in AssetSymbols(assets)
    /\ ~(amount <= 0)
    /\ ~(price_per_unit < 0)

\* lines 96-112: the asset exists and amount and price are positive
Accepted(asset_symbol, amount, price_per_unit) ==
    /\ Upper(asset_symbol) \in AssetSymbols(assets)
    /\ ~(amount <= 0)
    /\ ~(price_per_unit <= 0)

\* lines 88-129
add_transaction(asset_symbol, transaction_type, amount, price_per_unit, fees) ==
    LET ok == Accepted(asset_symbol, amount, price_per_unit)
    IN /\ transactions' =
            IF ok
            THEN Append(transactions,
                        NewTransaction(asset_symbol, transaction_type, amount,
                                       price_per_unit, fees))
            ELSE transactions
       /\ UNCHANGED <<assets, price_history, crypto_symbols_cache, cache_timestamp, now>>
       /\ last' = [op |-> "add_transaction", symbol |-> asset_symbol,
                   transaction_type |-> transaction_type, amount |-> amount,
                   price_per_unit |-> price_per_unit, fees |-> fees, ret |-> ok]

\* lines 96-112: the check that makes add_transaction return False, in the
\* order of the code ("none" when the row is inserted)
Rejection(asset_symbol, amount, price_per_unit) ==
    IF Upper(asset_symbol) \notin AssetSymbols(assets) THEN "asset"
    ELSE IF amount <= 0 THEN "amount"
    ELSE IF price_per_unit <= 0 THEN "price"
    ELSE "none"

\* web_frontend.py, POST /api/transactions: what the client receives for a
\* request (the number 0 is a missing field to all([...]))
WebAddTransaction(asset_symbol, amount, price_per_unit) ==
    IF amount = 0 \/ price_per_unit = 0
    THEN [status |-> 400, success |-> FALSE, error |-> "Required fields missing"]
    ELSE [status |-> 200, success |-> Accepted(asset_symbol, amount, price_per_unit),
          error |-> ""]

\* lines 131-153: envs answers the resolutions in the order of the rows
update_asset_prices(envs) ==
    LET r == BatchLoop(Current, now, assets, envs, <<>>, 0, <<>>)
    IN /\ Install(r.st)
       /\ UNCHANGED <<transactions, now>>
       /\ last' = [op |-> "update_asset_prices", results |-> r.results,
                   trace |-> r.trace]

\* lines 224-384
update_single_asset_price(symbol, asset_type, env) ==
    LET r == UpdateSingleAssetPriceStep(Current, now, symbol, asset_type, env)
    IN /\ Install(r.st)
       /\ UNCHANGED <<transactions, now>>
       /\ last' = [op |-> "update_single_asset_price", symbol |-> symbol,
                   asset_type |-> asset_type, env |-> env, price |-> r.price,
                   ret |-> r.ret, trace |-> r.trace]

\* update_asset_values_manually without symbol.upper()
update_asset_values_manually_NoUpper(symbol, price) ==
    /\ assets' = UpdateCurrentPrice(assets, symbol, price)
    /\ price_history' = InsertPriceHistory(price_history, symbol, price)
    /\ UNCHANGED <<transactions, crypto_symbols_cache, cache_timestamp, now>>
    /\ last' = [op |-> "update_asset_values_manually", symbol |-> symbol,
                price |-> price, ret |-> TRUE]

\* lines 386-407
update_asset_values_manually(symbol, price) ==
    /\ assets' = UpdateCurrentPrice(assets, Upper(symbol), price)
    /\ price_history' = InsertPriceHistory(price_history, Upper(symbol), price)
    /\ UNCHANGED <<transactions, crypto_symbols_cache, cache_timestamp, now>>
    /\ last' = [op |-> "update_asset_values_manually", symbol |-> symbol,
                price |-> price, ret |-> TRUE]

\* delete_asset without the DELETE FROM transactions
delete_asset_KeepsTransactions(symbol) ==
    /\ price_history' = DeleteRowsOf(price_history, Upper(symbol))
    /\ assets' = DeleteAssetRows(assets, Upper(symbol))
    /\ UNCHANGED <<transactions, crypto_symbols_cache, cache_timestamp, now>>
    /\ last' = [op |-> "delete_asset", symbol |-> symbol, ret |-> TRUE]

\* lines 492-508
delete_asset(symbol) ==
    /\ transactions' = DeleteRowsOf(transactions, Upper(symbol))
    /\ price_history' = DeleteRowsOf(price_history, Upper(symbol))
    /\ assets' = DeleteAssetRows(assets, Upper(symbol))
    /\ UNCHANGED <<crypto_symbols_cache, cache_timestamp, now>>
    /\ last' = [op |-> "delete_asset", symbol |-> symbol, ret |-> TRUE]

(***************************************************************************)
(* Calls that overlap.  Every call opens its own sqlite3 connection        *)
(* (sqlite3.connect(self.db_path) in each method), so two threads of the   *)
(* presentation layer that call the tracker at the same time run their     *)
(* statements interleaved.  A thread is at one statement of its call (pc). *)
(* The first INSERT, UPDATE or DELETE of a connection opens a transaction  *)
(* and takes the write lock of the database file; the lock is held until   *)
(* conn.commit(), and the statements in between change only what that      *)
(* connection sees (work).  A SELECT outside a transaction reads what is   *)
(* committed.  A connection that finds the lock taken waits, or gives up   *)
(* after the timeout with "database is locked".                            *)
(***************************************************************************)
Procs == {1, 2}

NotStarted ==
    [op |-> "none", pc |-> "idle", symbol |-> "", asset_type |-> "",
     price |-> None, rows |-> <<>>, work |-> None, ret |-> None,
     results |-> <<>>, began |-> 0, commits |-> <<>>]

\* the first statement of each method
FirstPc(op) ==
    CASE op = "update_asset_values_manually" -> "update"
      [] op = "update_single_asset_price" -> "resolve"
      [] op = "update_asset_prices" -> "list"
      [] op = "add_transaction" -> "select"
      [] op = "delete_asset" -> "delete_transactions"

\* the methods that write a price
PriceOps == {"update_asset_values_manually", "update_single_asset_price",
             "update_asset_prices"}

\* the symbol bound to the statements: symbol.upper(), but the symbol as it
\* was passed in update_single_asset_price (lines 370, 375)
StatementSymbol(th) ==
    IF th.op \in {"update_single_asset_price", "update_asset_prices"}
    THEN th.symbol
    ELSE Upper(th.symbol)

\* what is committed, and what the connection of thread p sees
Work(p) ==
    IF IsNone(threads[p].work)
    THEN [assets |-> assets, transactions |-> transactions,
          price_history |-> price_history]
    ELSE Val(threads[p].work)

\* the write lock is free or held by p
CanWrite(p) == write_lock \in {None, Some(p)}

\* the method returns False (the except branches, lines 127-129, 377-384,
\* 405-407, 506-508); in the batch the loop goes on with the next row
Failed(th) ==
    IF th.op = "update_asset_prices"
    THEN [th EXCEPT !.pc = "next", !.work = None,
                    !.results = (th.symbol :> FALSE) @@ th.results]
    ELSE [th EXCEPT !.pc = "done", !.work = None, !.ret = Some(FALSE)]

\* the number of commits made so far
RECURSIVE CommitCount(_, _)
CommitCount(ths, procs) ==
    IF procs = {} THEN 0
    ELSE LET p == CHOOSE q \in procs : TRUE
         IN Len(ths[p].commits) + CommitCount(ths, procs \ {p})

\* conn.commit(); conn.close(); return True.  commits keeps what the
\* thread committed and at which place in the order of all commits
Succeeded(th, at) ==
    LET logged == Append(th.commits, [symbol |-> StatementSymbol(th),
                                      price |-> th.price, at |-> at])
    IN IF th.op = "update_asset_prices"
       THEN [th EXCEPT !.pc = "next", !.work = None, !.commits = logged,
                       !.results = (th.symbol :> TRUE) @@ th.results]
       ELSE [th EXCEPT !.pc = "done", !.work = None, !.commits = logged,
                       !.ret = Some(TRUE)]

\* lines 155-222, called on the tracker: listing is the answer the call
\* gets if it requests the coin listing
get_available_crypto_symbols(listing) ==
    LET got == GetAvailableCryptoSymbols(crypto_symbols_cache, cache_timestamp,
                                         now, listing)
    IN /\ crypto_symbols_cache' = got.cache
       /\ cache_timestamp' = got.timestamp
       /\ UNCHANGED <<assets, transactions, price_history, now>>
       /\ last' = [op |-> "get_available_crypto_symbols", listing |-> listing,
                   map |-> got.map, fetched |-> got.fetched]

\* __init__ on a new database file
Init ==
    /\ assets = <<>>
    /\ transactions = <<>>
    /\ price_history = <<>>
    /\ crypto_symbols_cache = None
    /\ cache_timestamp = None
    /\ now = 0
    /\ last = NoCall
    /\ threads = [p \in Procs |-> NotStarted]
    /\ write_lock = None

(***************************************************************************)
(* What the providers may answer.                                          *)
(***************************************************************************)
Resp(status, eur) == [raised |-> FALSE, status |-> status, eur |-> eur]
RespRaised == [raised |-> TRUE, status |-> 0, eur |-> None]

Listing(status, coins) == [raised |-> FALSE, status |-> status, coins |-> coins]
ListingRaised == [raised |-> TRUE, status |-> 0, coins |-> <<>>]

Rate(close) == [raised |-> FALSE, close |-> close]
RateRaised == [raised |-> TRUE, close |-> None]
Pairs == {"EURUSD=X", "EURGBP=X", "EURCHF=X", "EURJPY=X"}

NoInfo == [currentPrice |-> None, regularMarketPrice |-> None, bid |-> None]
Ticker(currency, close, info, rates) ==
    [raised |-> FALSE, currency |-> currency, close |-> close, info |-> info,
     rates |-> rates]
TickerRaised ==
    [raised |-> TRUE, currency |-> None, close |-> None, info |-> NoInfo,
     rates |-> [p \in Pairs |-> RateRaised]]

ListingUp == Listing(200, << [symbol |-> "aapl", id |-> "apple-token"] >>)

\* the answers of the crypto provider during one resolution: a price, no
\* price, a body without the price, rate limiting (once, twice), a server
\* error, a network error; with the coin listing up or down
CryptoAnswers ==
    { [listing |-> ListingUp, r1 |-> Resp(200, Some(2)), r2 |-> RespRaised],
      [listing |-> ListingRaised, r1 |-> Resp(200, Some(2)), r2 |-> RespRaised],
      [listing |-> ListingUp, r1 |-> Resp(200, Some(0)), r2 |-> RespRaised],
      [listing |-> ListingUp, r1 |-> Resp(200, None), r2 |-> RespRaised],
      [listing |-> ListingUp, r1 |-> Resp(429, None), r2 |-> Resp(200, Some(2))],
      [listing |-> Listing(500, <<>>), r1 |-> Resp(429, None), r2 |-> Resp(429, None)],
      [listing |-> ListingUp, r1 |-> Resp(500, None), r2 |-> RespRaised],
      [listing |-> ListingRaised, r1 |-> RespRaised, r2 |-> RespRaised] }

\* the answers of the stock provider during one resolution
StockAnswers ==
    { TickerRaised,
      Ticker(Some("EUR"), Some(2), NoInfo, [p \in Pairs |-> Rate(None)]),
      Ticker(Some("USD"), Some(4), NoInfo, [p \in Pairs |-> Rate(Some(200))]),
      Ticker(Some("USD"), Some(0),
             [NoInfo EXCEPT !.currentPrice = Some(2)], [p \in Pairs |-> RateRaised]),
      Ticker(None, None, [NoInfo EXCEPT !.bid = Some(0)], [p \in Pairs |-> Rate(None)]),
      Ticker(Some("GBP"), None, NoInfo, [p \in Pairs |-> Rate(None)]) }

Env(c, y) == [listing |-> c.listing, r1 |-> c.r1, r2 |-> c.r2, y |-> y]
AnyCrypto == CHOOSE c \in CryptoAnswers : TRUE
AnyStock == CHOOSE y \in StockAnswers : TRUE

\* the answers that matter to a resolution for an asset of the given type
EnvsFor(asset_type) ==
    IF asset_type = "crypto" THEN { Env(c, AnyStock) : c \in CryptoAnswers }
    ELSE { Env(AnyCrypto, y) : y \in StockAnswers }

\* one answer per row, in the order of the rows
RECURSIVE EnvSeqs(_)
EnvSeqs(rows) ==
    IF rows = <<>> THEN { <<>> }
    ELSE { <<e>> \o rest : e \in EnvsFor(Head(rows).asset_type),
                           rest \in EnvSeqs(Tail(rows)) }

(***************************************************************************)
(* Calls.  A call is made when the previous one has returned to its caller *)
(* (last = NoCall); it runs the whole operation and leaves its record in   *)
(* last until the caller takes it (Return).  The table sizes are capped.   *)
(***************************************************************************)
Idle == last = NoCall

\* answers: for each asset type the provider answers the call may meet
AddAsset(symbols, types, answers, maxHist) ==
    \E symbol \in symbols, asset_type \in types :
        \E env \in answers[asset_type] :
            /\ Idle
            /\ UNCHANGED conns
            /\ Len(price_history) < maxHist
            /\ add_asset(symbol, asset_type, env)

AddTransaction(symbols, types, amounts, prices, feeset, maxTx) ==
    \E asset_symbol \in symbols, transaction_type \in types,
       amount \in amounts, price_per_unit \in prices, fees \in feeset :
        /\ Idle
        /\ UNCHANGED conns
        /\ Len(transactions) < maxTx
        /\ add_transaction(asset_symbol, transaction_type, amount, price_per_unit, fees)

UpdateAssetPrices(maxHist) ==
    \E envs \in EnvSeqs(assets) :
        /\ Idle
        /\ UNCHANGED conns
        /\ Len(price_history) + Len(assets) <= maxHist
        /\ update_asset_prices(envs)

UpdateSingleAssetPrice(symbols, types, answers, maxHist) ==
    \E symbol \in symbols, asset_type \in types :
        \E env \in answers[asset_type] :
            /\ Idle
            /\ UNCHANGED conns
            /\ Len(price_history) < maxHist
            /\ update_single_asset_price(symbol, asset_type, env)

UpdateAssetValuesManually(symbols, prices, maxHist) ==
    \E symbol \in symbols, price \in prices :
        /\ Idle
        /\ UNCHANGED conns
        /\ Len(price_history) < maxHist
        /\ update_asset_values_manually(symbol, price)

DeleteAsset(symbols) ==
    \E symbol \in symbols :
        /\ Idle
        /\ UNCHANGED conns
        /\ delete_asset(symbol)

Return ==
    /\ ~Idle
    /\ UNCHANGED conns
    /\ last' = NoCall
    /\ UNCHANGED <<assets, transactions, price_history,
                   crypto_symbols_cache, cache_timestamp, now>>

(***************************************************************************)
(* Spec: every operation of the store, on small arguments.                 *)
(***************************************************************************)
ManualPrices == {-1, 1}

Next ==
    \/ AddAsset(Symbols, AssetTypes, [t \in AssetTypes |-> EnvsFor(t)], MaxHist)
    \/ AddTransaction(Symbols, {"buy"}, {0, 1}, {1}, {0}, MaxTx)
    \/ UpdateAssetPrices(MaxHist)
    \/ UpdateSingleAssetPrice(Symbols, AssetTypes, [t \in AssetTypes |-> EnvsFor(t)], MaxHist)
    \/ UpdateAssetValuesManually(Symbols, ManualPrices, MaxHist)
    \/ DeleteAsset(Symbols)
    \/ Return

Spec == Init /\ [][Next]_vars

(***************************************************************************)
(* SpecLedger: the ledger of transactions and its summary.  Assets are     *)
(* registered (the stock provider answers a EUR close or not at all),      *)
(* trades of every amount, price and fee are booked on BTC, dividend and   *)
(* fee entries and unit trades on any asset, and assets are deleted.       *)
(***************************************************************************)
LedgerAnswers ==
    { Env(AnyCrypto, TickerRaised),
      Env(AnyCrypto,
          Ticker(Some("EUR"), Some(3), NoInfo, [p \in Pairs |-> Rate(None)])) }

NextLedger ==
    \/ AddAsset({"BTC", "AAPL"}, {"stock"}, [t \in {"stock"} |-> LedgerAnswers], MaxHist)
    \/ AddTransaction({"BTC", "btc"}, {"buy", "sell"}, {1, 2}, {1, 2}, {0, 1}, MaxTx)
    \/ AddTransaction(Symbols, {"dividend", "fee"}, {1}, {2}, {1}, MaxTx)
    \/ AddTransaction({"AAPL"}, {"buy", "sell"}, {1}, {1}, {0}, MaxTx)
    \/ DeleteAsset({"BTC", "AAPL"})
    \/ Return

SpecLedger == Init /\ [][NextLedger]_vars

(***************************************************************************)
(* SpecValidate: add_transaction on every kind of argument, valid or not,  *)
(* for symbols that are registered or not.                                 *)
(***************************************************************************)
Amounts == {-1, 0, 1}
Prices == {-1, 0, 1}
Fees == {0, 1}
\* arguments outside the documented ranges, which no check of the route or
\* of add_transaction looks at
OtherTypes == {"transfer"}
OtherFees == {-1}

NextValidate ==
    \/ AddAsset(Symbols, {"stock"}, [t \in {"stock"} |-> LedgerAnswers], MaxHist)
    \/ AddTransaction(Symbols, TxTypes, Amounts, Prices, Fees, MaxTx)
    \/ AddTransaction({"BTC"}, OtherTypes, {1}, {1}, {0}, MaxTx)
    \/ AddTransaction({"BTC"}, {"buy"}, {1}, {1}, OtherFees, MaxTx)
    \/ DeleteAsset(Symbols)
    \/ Return

SpecValidate == Init /\ [][NextValidate]_vars

(***************************************************************************)
(* SpecConvert: the resolution of a stock price for every currency, with   *)
(* or without a historical close, with one or several quote fields, and    *)
(* with exchange rates that are live, empty or failing.                    *)
(***************************************************************************)
Currencies ==
    {None, Some("EUR"), Some("USD"), Some("usd"), Some("GBP"), Some("CHF"),
     Some("JPY"), Some("SEK")}
Closes == {None, Some(0), Some(21600)}
Infos ==
    { NoInfo,
      [NoInfo EXCEPT !.currentPrice = Some(21600)],
      [NoInfo EXCEPT !.regularMarketPrice = Some(21600)],
      [NoInfo EXCEPT !.bid = Some(21600)],
      [NoInfo EXCEPT !.currentPrice = Some(10800), !.regularMarketPrice = Some(21600)] }
LiveRates ==
    [p \in Pairs |->
        Rate(Some(CASE p = "EURUSD=X" -> 108
                    [] p = "EURGBP=X" -> 86
                    [] p = "EURCHF=X" -> 95
                    [] p = "EURJPY=X" -> 16000))]
RateTables == {LiveRates, [p \in Pairs |-> Rate(None)], [p \in Pairs |-> RateRaised]}

ConvertAnswers ==
    { Env(AnyCrypto, Ticker(currency, close, info, rates)) :
        currency \in Currencies, close \in Closes, info \in Infos,
        rates \in RateTables }

NextConvert ==
    \/ AddAsset({"AAPL"}, {"stock"},
                [t \in {"stock"} |-> {Env(AnyCrypto, TickerRaised)}], MaxHist)
    \/ UpdateSingleAssetPrice({"AAPL"}, {"stock"},
                              [t \in {"stock"} |-> ConvertAnswers], MaxHist)
    \/ Return

SpecConvert == Init /\ [][NextConvert]_vars

(***************************************************************************)
(* SpecCache: the symbol mapping and its cache.  The mapping is asked for  *)
(* while the clock (seconds) advances by half an hour, an hour or a day;   *)
(* the coin listing answers with coins in different orders, with           *)
(* collisions, or fails.                                                   *)
(***************************************************************************)
Coin(symbol, id) == [symbol |-> symbol, id |-> id]
Listings ==
    { ListingRaised,
      Listing(500, <<>>),
      Listing(200, <<>>),
      Listing(200, << Coin("xyz", "xyz-one"), Coin("btc", "batcat"),
                      Coin("XYZ", "xyz-two") >>),
      Listing(200, << Coin("XYZ", "xyz-two"), Coin("xyz", "xyz-one"),
                      Coin("BTC", "batcat") >>),
      Listing(200, << Coin("A-B", "ab-one"), Coin("LONGSYMBOL11", "long"),
                      Coin("eth", "ethereum-wormhole"), Coin("A-B", "ab-two") >>) }

Elapse == {1800, 3600, 24 * 3600}

\* datetime.datetime.now() between two calls
Tick ==
    \E d \in Elapse :
        /\ Idle
        /\ UNCHANGED conns
        /\ now + d <= MaxHours * 3600
        /\ now' = now + d
        /\ UNCHANGED <<assets, transactions, price_history,
                       crypto_symbols_cache, cache_timestamp, last>>

GetAvailableCryptoSymbolsCall(listings) ==
    \E listing \in listings :
        /\ Idle
        /\ UNCHANGED conns
        /\ get_available_crypto_symbols(listing)

NextCache ==
    \/ Tick
    \/ GetAvailableCryptoSymbolsCall(Listings)
    \/ Return

SpecCache == Init /\ [][NextCache]_vars

(***************************************************************************)
(* SpecThreads: calls that overlap.  Assets are registered as stocks while *)
(* no thread runs; then each thread makes one call on AAPL (a manual       *)
(* update, a refresh, the batch refresh, add_transaction or delete_asset)  *)
(* and the statements of the two calls interleave.                         *)
(***************************************************************************)
ThreadSymbols == {"AAPL"}
ThreadAnswers ==
    { Env(AnyCrypto, TickerRaised),
      Env(AnyCrypto, Ticker(Some("EUR"), Some(2), NoInfo, [p \in Pairs |-> Rate(None)])),
      Env(AnyCrypto, Ticker(Some("EUR"), Some(3), NoInfo, [p \in Pairs |-> Rate(None)])) }

AllDone == \A p \in Procs : threads[p].pc = "done"

Register ==
    /\ \A p \in Procs : threads[p].op = "none"
    /\ AddAsset({"AAPL", "BTC"}, {"stock"}, [t \in AssetTypes |-> ThreadAnswers],
                MaxHist)

\* a thread calls a method: the manual update with price 1, the refresh of
\* a stock, add_transaction of one unit bought at 1
Call ==
    \E p \in Procs, symbol \in ThreadSymbols,
       op \in {"update_asset_values_manually", "update_single_asset_price",
               "update_asset_prices", "add_transaction", "delete_asset"} :
        /\ Idle
        /\ threads[p].op = "none"
        /\ threads' = [threads EXCEPT ![p] =
                [NotStarted EXCEPT
                    !.op = op, !.pc = FirstPc(op), !.symbol = symbol,
                    !.asset_type = "stock",
                    !.began = CommitCount(threads, Procs),
                    !.price = IF op = "update_asset_values_manually"
                              THEN Some(1) ELSE None]]
        /\ UNCHANGED <<assets, transactions, price_history, crypto_symbols_cache,
                       cache_timestamp, now, last, write_lock>>

\* the statements that leave the committed tables and the lock alone
Local(p, th) ==
    /\ threads' = [threads EXCEPT ![p] = th]
    /\ UNCHANGED <<assets, transactions, price_history, crypto_symbols_cache,
                   cache_timestamp, now, last, write_lock>>

\* a statement that writes: it takes the write lock if the connection does
\* not hold it, and changes what the connection sees
Write(p, pc, work) ==
    /\ CanWrite(p)
    /\ write_lock' = Some(p)
    /\ threads' = [threads EXCEPT ![p].pc = pc, ![p].work = Some(work)]
    /\ UNCHANGED <<assets, transactions, price_history, crypto_symbols_cache,
                   cache_timestamp, now, last>>

\* add_transaction, lines 96-112: SELECT symbol FROM assets WHERE symbol = ?
\* and the checks of amount and price
Select ==
    \E p \in Procs :
        /\ threads[p].pc = "select"
        /\ Local(p, IF Accepted(threads[p].symbol, 1, 1)
                    THEN [threads[p] EXCEPT !.pc = "insert_transaction"]
                    ELSE Failed(threads[p]))

\* add_transaction, lines 118-122: INSERT INTO transactions
InsertTransaction ==
    \E p \in Procs :
        /\ threads[p].pc = "insert_transaction"
        /\ Write(p, "commit",
                 [Work(p) EXCEPT !.transactions =
                     Append(@, NewTransaction(threads[p].symbol, "buy", 1, 1, 0))])

\* update_asset_prices, lines 133-138: SELECT symbol, asset_type FROM assets
List ==
    \E p \in Procs :
        /\ threads[p].pc = "list"
        /\ Local(p, [threads[p] EXCEPT !.pc = "next", !.rows = assets])

\* update_asset_prices, lines 143-153: the next row of the loop, or the end
NextRow ==
    \E p \in Procs :
        /\ threads[p].pc = "next"
        /\ Local(p, IF threads[p].rows = <<>>
                    THEN [threads[p] EXCEPT !.pc = "done", !.ret = Some(TRUE)]
                    ELSE [threads[p] EXCEPT
                             !.pc = "resolve",
                             !.symbol = Head(threads[p].rows).symbol,
                             !.asset_type = Head(threads[p].rows).asset_type,
                             !.rows = Tail(threads[p].rows)])

\* update_single_asset_price, lines 227-362: the price is resolved; without
\* a price > 0 the method returns False
Resolve ==
    \E p \in Procs, env \in ThreadAnswers :
        /\ threads[p].pc = "resolve"
        /\ LET price == ResolvePrice(Current, now, threads[p].symbol,
                                     threads[p].asset_type, env).price
           IN Local(p, IF ShouldSave(price)
                       THEN [threads[p] EXCEPT !.pc = "update", !.price = price]
                       ELSE Failed(threads[p]))

\* the UPDATE committed on its own (a connection in autocommit mode)
Update_Autocommit ==
    \E p \in Procs :
        /\ threads[p].pc = "update"
        /\ CanWrite(p)
        /\ assets' = UpdateCurrentPrice(assets, StatementSymbol(threads[p]),
                                        Val(threads[p].price))
        /\ threads' = [threads EXCEPT ![p].pc = "insert"]
        /\ UNCHANGED <<transactions, price_history, crypto_symbols_cache,
                       cache_timestamp, now, last, write_lock>>

\* lines 367-370 and 393-396: UPDATE assets SET current_price = ?
Update ==
    \E p \in Procs :
        /\ threads[p].pc = "update"
        /\ Write(p, "insert",
                 [Work(p) EXCEPT !.assets =
                     UpdateCurrentPrice(@, StatementSymbol(threads[p]),
                                        Val(threads[p].price))])

\* lines 373-375 and 399-401: INSERT INTO price_history
Insert ==
    \E p \in Procs :
        /\ threads[p].pc = "insert"
        /\ Write(p, "commit",
                 [Work(p) EXCEPT !.price_history =
                     InsertPriceHistory(@, StatementSymbol(threads[p]),
                                        Val(threads[p].price))])

\* delete_asset, line 499: DELETE FROM transactions
DeleteTransactions ==
    \E p \in Procs :
        /\ threads[p].pc = "delete_transactions"
        /\ Write(p, "delete_price_history",
                 [Work(p) EXCEPT !.transactions =
                     DeleteRowsOf(@, StatementSymbol(threads[p]))])

\* delete_asset, line 500: DELETE FROM price_history
DeletePriceHistory ==
    \E p \in Procs :
        /\ threads[p].pc = "delete_price_history"
        /\ Write(p, "delete_assets",
                 [Work(p) EXCEPT !.price_history =
                     DeleteRowsOf(@, StatementSymbol(threads[p]))])

\* delete_asset, line 501: DELETE FROM assets
DeleteAssets ==
    \E p \in Procs :
        /\ threads[p].pc = "delete_assets"
        /\ Write(p, "commit",
                 [Work(p) EXCEPT !.assets =
                     DeleteAssetRows(@, StatementSymbol(threads[p]))])

\* conn.commit(): what the connection sees becomes what is committed, and
\* the write lock is released
Commit ==
    \E p \in Procs :
        /\ threads[p].pc = "commit"
        /\ write_lock = Some(p)
        /\ assets' = Work(p).assets
        /\ transactions' = Work(p).transactions
        /\ price_history' = Work(p).price_history
        /\ write_lock' = None
        /\ threads' = [threads EXCEPT ![p] =
                           Succeeded(threads[p], CommitCount(threads, Procs) + 1)]
        /\ UNCHANGED <<crypto_symbols_cache, cache_timestamp, now, last>>

\* the first writing statement of a connection finds the lock held by
\* the other connection until the timeout: sqlite3.OperationalError
\* "database is locked", caught by the except branch of the method
Busy ==
    \E p \in Procs :
        /\ threads[p].pc \in {"update", "insert_transaction", "delete_transactions"}
        /\ ~CanWrite(p)
        /\ Local(p, Failed(threads[p]))

NextThreads ==
    \/ Register
    \/ Return
    \/ Call
    \/ Select
    \/ InsertTransaction
    \/ List
    \/ NextRow
    \/ Resolve
    \/ Update
    \/ Insert
    \/ DeleteTransactions
    \/ DeletePriceHistory
    \/ DeleteAssets
    \/ Commit
    \/ Busy

SpecThreads == Init /\ [][NextThreads]_vars

(***************************************************************************)
(* Vocabulary of the properties: the rows of one symbol in a table, and    *)
(* the call a step makes (the record it leaves in last).                   *)
(***************************************************************************)
TxOf(tbl, sym) == SelectSeq(tbl, LAMBDA r : r.asset_symbol = sym)
AssetsOf(tbl, sym) == SelectSeq(tbl, LAMBDA r : r.symbol = sym)
StoredSymbols == {"BTC", "btc", "AAPL"}

Called(op) == last.op = "none" /\ last'.op = op
Returned(op) == last.op = op

(***************************************************************************)
(* C1.  add_transaction for a symbol that is not a registered asset        *)
(* returns failure whatever the other arguments are, and leaves assets,    *)
(* transactions and price_history unchanged.                               *)
(***************************************************************************)
C1_UnknownAssetRejected ==
    [][ (/\ Called("add_transaction")
         /\ Upper(last'.symbol) \notin AssetSymbols(assets)) =>
            /\ last'.ret = FALSE
            /\ UNCHANGED <<assets, transactions, price_history>> ]_vars

\* a transaction with valid amount and price was rejected for a symbol that
\* is not registered, while another asset is
C1_Witness ==
    /\ Returned("add_transaction")
    /\ last.ret = FALSE
    /\ Upper(last.symbol) \notin AssetSymbols(assets)
    /\ last.amount > 0 /\ last.price_per_unit > 0
    /\ assets # <<>>

(***************************************************************************)
(* C2.  add_transaction with amount <= 0 or price_per_unit <= 0 returns    *)
(* failure for every transaction type, dividend and fee included, and no   *)
(* transaction row is written.                                             *)
(***************************************************************************)
C2_NonPositiveRejected ==
    [][ (/\ Called("add_transaction")
         /\ (last'.amount <= 0 \/ last'.price_per_unit <= 0)) =>
            /\ last'.ret = FALSE
            /\ transactions' = transactions ]_vars

\* a dividend with price 0 on a registered asset was rejected
C2_Witness ==
    /\ Returned("add_transaction")
    /\ last.ret = FALSE
    /\ last.transaction_type = "dividend"
    /\ Upper(last.symbol) \in AssetSymbols(assets)
    /\ last.amount > 0 /\ last.price_per_unit = 0

(***************************************************************************)
(* Sums over the ledger, written from the rows' amount, price_per_unit and *)
(* fees.                                                                   *)
(***************************************************************************)
RowsOfType(sym, type) ==
    { i \in DOMAIN transactions :
        /\ transactions[i].asset_symbol = sym
        /\ transactions[i].transaction_type = type }

RECURSIVE SumOver(_, _)
SumOver(idx, f) ==
    IF idx = {} THEN 0
    ELSE LET i == CHOOSE j \in idx : TRUE
         IN f[i] + SumOver(idx \ {i}, f)

AmountAt == [i \in DOMAIN transactions |-> transactions[i].amount]
CostAt ==
    [i \in DOMAIN transactions |->
        transactions[i].amount * transactions[i].price_per_unit + transactions[i].fees]
ProceedsAt ==
    [i \in DOMAIN transactions |->
        transactions[i].amount * transactions[i].price_per_unit - transactions[i].fees]

NetAmount(sym) ==
    SumOver(RowsOfType(sym, "buy"), AmountAt) - SumOver(RowsOfType(sym, "sell"), AmountAt)
NetInvested(sym) ==
    SumOver(RowsOfType(sym, "buy"), CostAt) - SumOver(RowsOfType(sym, "sell"), ProceedsAt)

Summary == get_portfolio_summary(assets, transactions)
Trades ==
    SelectSeq(transactions, LAMBDA t : t.transaction_type \notin {"dividend", "fee"})

(***************************************************************************)
(* C3.  The total_amount the summary reports for an asset is the sum of    *)
(* its buy amounts minus the sum of its sell amounts, and it is the same   *)
(* with the dividend and fee entries taken out of the ledger.              *)
(***************************************************************************)
C3_TotalAmount ==
    LET without == get_portfolio_summary(assets, Trades)
    IN /\ \A i \in DOMAIN Summary :
             Summary[i].total_amount = NetAmount(Summary[i].symbol)
       /\ Len(without) = Len(Summary)
       /\ \A i \in DOMAIN Summary :
             /\ without[i].symbol = Summary[i].symbol
             /\ without[i].total_amount = Summary[i].total_amount

\* a holding is reported for an asset that has a buy and a dividend or fee
C3_Witness ==
    /\ \E i \in DOMAIN Summary : Summary[i].symbol = "BTC"
    /\ RowsOfType("BTC", "buy") # {}
    /\ RowsOfType("BTC", "dividend") \cup RowsOfType("BTC", "fee") # {}

(***************************************************************************)
(* C4.  For every holding total_invested is the sum over its buys of       *)
(* amount * price_per_unit + fees minus the sum over its sells of          *)
(* amount * price_per_unit - fees; dividend and fee entries add nothing.   *)
(* One buy of 10 @ 150 with fees 5 gives 1505; buys of 0.5 @ 45000 with    *)
(* fees 25 and 0.3 @ 50000 with fees 20 give 37545 (in the second example  *)
(* the amounts are written in tenths and the prices in tens, so that the   *)
(* products and the fees are in units).                                    *)
(***************************************************************************)
ExampleAsset(sym) == << [symbol |-> sym, asset_type |-> "stock", current_price |-> 0] >>
ExampleAAPL ==
    get_portfolio_summary(ExampleAsset("AAPL"),
                          << NewTransaction("AAPL", "buy", 10, 150, 5) >>)
ExampleBTC ==
    get_portfolio_summary(ExampleAsset("BTC"),
                          << NewTransaction("BTC", "buy", 5, 4500, 25),
                             NewTransaction("BTC", "buy", 3, 5000, 20) >>)

C4_TotalInvested ==
    /\ \A i \in DOMAIN Summary :
          Summary[i].total_invested = NetInvested(Summary[i].symbol)
    /\ Len(ExampleAAPL) = 1
    /\ ExampleAAPL[1].total_invested = 1505 /\ ExampleAAPL[1].total_amount = 10
    /\ Len(ExampleBTC) = 1
    /\ ExampleBTC[1].total_invested = 37545 /\ ExampleBTC[1].total_amount = 8

\* a holding of an asset with a buy and a sell that both carry fees
C4_Witness ==
    /\ \E i \in DOMAIN Summary : Summary[i].symbol = "BTC"
    /\ \E i \in RowsOfType("BTC", "buy") : transactions[i].fees > 0
    /\ \E i \in RowsOfType("BTC", "sell") : transactions[i].fees > 0

(***************************************************************************)
(* C5.  The summary holds exactly one holding for each registered asset    *)
(* whose net total_amount is > 0 and none for an asset whose net           *)
(* total_amount is <= 0 (no transactions, sold, over-sold, only dividend   *)
(* or fee entries).                                                        *)
(***************************************************************************)
C5_HoldingsArePositiveAssets ==
    /\ \A i, j \in DOMAIN Summary : Summary[i].symbol = Summary[j].symbol => i = j
    /\ { Summary[i].symbol : i \in DOMAIN Summary } =
          { s \in AssetSymbols(assets) : NetAmount(s) > 0 }

\* two assets are registered: one is held, the other was sold without
\* having been bought and is not in the summary
C5_Witness ==
    /\ Len(assets) = 2
    /\ Len(Summary) = 1
    /\ \E s \in AssetSymbols(assets) : NetAmount(s) < 0

(***************************************************************************)
(* C6.  For every holding whose total_invested is 0, profit_loss_percent   *)
(* is exactly 0, not an infinite or undefined value.                       *)
(***************************************************************************)
C6_ZeroInvestedGivesZeroPercent ==
    \A i \in DOMAIN Summary :
        Summary[i].total_invested = 0 =>
            Summary[i].profit_loss_percent = [kind |-> "number", hundredths |-> 0]

(***************************************************************************)
(* C7.  After delete_asset(s) returns success no asset row, transaction    *)
(* row or price-history row for the symbol s remains (neither under s as   *)
(* passed nor under s.upper()), whatever came before, and the rows of      *)
(* every other symbol are unchanged.                                       *)
(***************************************************************************)
C7_DeleteRemovesAllRows ==
    [][ (Called("delete_asset") /\ last'.ret) =>
            /\ \A s \in {last'.symbol, Upper(last'.symbol)} :
                  /\ AssetsOf(assets', s) = <<>>
                  /\ TxOf(transactions', s) = <<>>
                  /\ TxOf(price_history', s) = <<>>
            /\ \A o \in StoredSymbols \ {last'.symbol, Upper(last'.symbol)} :
                  /\ AssetsOf(assets', o) = AssetsOf(assets, o)
                  /\ TxOf(transactions', o) = TxOf(transactions, o)
                  /\ TxOf(price_history', o) = TxOf(price_history, o) ]_vars

(***************************************************************************)
(* C8.  update_asset_values_manually(s, p) on a registered asset sets that *)
(* asset's current_price to p, appends exactly one price-history row       *)
(* (s.upper(), p), and leaves every transaction row and every other        *)
(* asset's row unchanged.                                                  *)
(***************************************************************************)
C8_ManualUpdateEffect ==
    [][ (/\ Called("update_asset_values_manually")
         /\ Upper(last'.symbol) \in AssetSymbols(assets)) =>
            LET s == Upper(last'.symbol)
                p == last'.price
            IN /\ Len(assets') = Len(assets)
               /\ \A i \in DOMAIN assets :
                     IF assets[i].symbol = s
                     THEN assets'[i] = [assets[i] EXCEPT !.current_price = p]
                     ELSE assets'[i] = assets[i]
               /\ price_history' =
                     price_history \o << [asset_symbol |-> s, price |-> p] >>
               /\ transactions' = transactions ]_vars

\* a manual update of a registered asset has returned, with a transaction
\* and another asset in the store
C8_Witness ==
    /\ Returned("update_asset_values_manually")
    /\ last.symbol = "btc"
    /\ \E i \in DOMAIN assets :
          assets[i].symbol = "BTC" /\ assets[i].current_price = last.price
    /\ AssetsOf(assets, "AAPL") # <<>>
    /\ transactions # <<>>

(***************************************************************************)
(* C9.  update_single_asset_price writes to the store only when the        *)
(* resolved price is strictly greater than zero; then it sets the          *)
(* current_price of the asset stored under the symbol passed, appends      *)
(* exactly one price-history row and returns True.  When the resolution    *)
(* fails or gives a price <= 0 it returns False and leaves assets,         *)
(* price_history and transactions unchanged.                               *)
(***************************************************************************)
C9_SingleUpdateGate ==
    [][ Called("update_single_asset_price") =>
            LET s == last'.symbol
                price == last'.price
            IN IF ~IsNone(price) /\ Val(price) > 0
               THEN /\ last'.ret = TRUE
                    /\ Len(assets') = Len(assets)
                    /\ \A i \in DOMAIN assets :
                          IF assets[i].symbol = s
                          THEN assets'[i] =
                                   [assets[i] EXCEPT !.current_price = Val(price)]
                          ELSE assets'[i] = assets[i]
                    /\ price_history' =
                          price_history \o << [asset_symbol |-> s, price |-> Val(price)] >>
                    /\ transactions' = transactions
               ELSE /\ last'.ret = FALSE
                    /\ UNCHANGED <<assets, price_history, transactions>> ]_vars

\* a resolution that gave the price 0 has returned False
C9_Witness ==
    /\ Returned("update_single_asset_price")
    /\ last.price = Some(0)
    /\ last.ret = FALSE
    /\ AssetsOf(assets, last.symbol) # <<>>

(***************************************************************************)
(* C10.  update_asset_prices always runs to the end of the asset list: a   *)
(* failed resolution of one symbol never keeps the later symbols from      *)
(* being attempted, and the map returned has exactly one entry per asset   *)
(* registered when the batch started, True iff that symbol's price was     *)
(* persisted (its current_price set and one price-history row appended).   *)
(***************************************************************************)
SymbolsInOrder(tbl) == [i \in DOMAIN tbl |-> tbl[i].symbol]
Attempted(trace) == SelectSeq(trace, LAMBDA x : x \in AssetSymbols(assets))

C10_BatchRunsToEnd ==
    [][ Called("update_asset_prices") =>
            /\ Attempted(last'.trace) = SymbolsInOrder(assets)
            /\ DOMAIN last'.results = AssetSymbols(assets)
            /\ \A s \in AssetSymbols(assets) :
                  LET before == TxOf(price_history, s)
                      after == TxOf(price_history', s)
                  IN IF last'.results[s]
                     THEN /\ Len(after) = Len(before) + 1
                          /\ SubSeq(after, 1, Len(before)) = before
                          /\ \A i \in DOMAIN assets' :
                                assets'[i].symbol = s =>
                                    assets'[i].current_price = after[Len(after)].price
                     ELSE /\ after = before
                          /\ AssetsOf(assets', s) = AssetsOf(assets, s) ]_vars

\* a batch has returned in which the first asset failed and the second,
\* attempted after it, was updated
C10_Witness ==
    /\ Returned("update_asset_prices")
    /\ Len(assets) = 2
    /\ last.results[assets[1].symbol] = FALSE
    /\ last.results[assets[2].symbol] = TRUE
    /\ Attempted(last.trace) = SymbolsInOrder(assets)
(***************************************************************************)
(* C11.  When add_transaction rejects a request for a validation reason    *)
(* the caller can tell which condition caused it: two requests rejected    *)
(* for different reasons (asset absent, amount not positive, price not     *)
(* positive) never give the caller the same outcome, neither as the value  *)
(* returned by the backend nor as the response of the web route.           *)
(***************************************************************************)
C11_RejectionsDistinguishable ==
    \A s1, s2 \in Symbols, a1, a2 \in Amounts, p1, p2 \in Prices :
        LET c1 == Rejection(s1, a1, p1)
            c2 == Rejection(s2, a2, p2)
        IN (c1 # "none" /\ c2 # "none" /\ c1 # c2) =>
              \/ Accepted(s1, a1, p1) # Accepted(s2, a2, p2)
              \/ WebAddTransaction(s1, a1, p1) # WebAddTransaction(s2, a2, p2)

(***************************************************************************)
(* C12.  add_asset returns success for a new symbol and for a symbol that  *)
(* is already registered, whether or not the immediate price refresh       *)
(* succeeds; afterwards exactly one asset row exists for the upper-cased   *)
(* symbol.                                                                 *)
(***************************************************************************)
C12_AddAssetSucceeds ==
    [][ Called("add_asset") =>
            /\ last'.ret = TRUE
            /\ Len(AssetsOf(assets', Upper(last'.symbol))) = 1 ]_vars

\* add_asset has returned for a lower-case symbol whose asset was already
\* registered (it has a transaction), and the price refresh failed
C12_Witness ==
    /\ Returned("add_asset")
    /\ last.ret = TRUE
    /\ last.refreshed = FALSE
    /\ last.symbol = "btc"
    /\ TxOf(transactions, "BTC") # <<>>
    /\ Len(AssetsOf(assets, "BTC")) = 1

(***************************************************************************)
(* C13.  In every state reachable by add_asset, add_transaction,           *)
(* delete_asset, price refresh and manual price update, every stored       *)
(* transaction's asset_symbol is the symbol of an asset that exists.       *)
(***************************************************************************)
C13_TransactionsReferenceAssets ==
    \A i \in DOMAIN transactions :
        transactions[i].asset_symbol \in AssetSymbols(assets)

\* an asset with a transaction has been deleted while the transaction of
\* another asset stays
C13_Witness ==
    /\ Returned("delete_asset")
    /\ Upper(last.symbol) = "AAPL"
    /\ TxOf(transactions, "BTC") # <<>>
    /\ TxOf(price_history, "AAPL") = <<>>
    /\ "AAPL" \notin AssetSymbols(assets)

(***************************************************************************)
(* C14.  Every transaction row stored by add_transaction, for any          *)
(* arguments it accepts, has transaction_type in {buy, sell, dividend,     *)
(* fee} and fees >= 0.                                                     *)
(***************************************************************************)
C14_StoredTypeAndFees ==
    \A i \in DOMAIN transactions :
        /\ transactions[i].transaction_type \in TxTypes
        /\ transactions[i].fees >= 0

(***************************************************************************)
(* The inputs of a stock resolution, as the call record holds them.        *)
(***************************************************************************)
StockCall == Called("update_single_asset_price") /\ last'.asset_type = "stock"
HasClose(y) == ~y.raised /\ ~IsNone(y.close) /\ Val(y.close) > 0
RatesLive(y) == \A p \in Pairs : ~y.rates[p].raised /\ ~IsNone(y.rates[p].close)
RateOf(y, p) == Val(y.rates[p].close)

(***************************************************************************)
(* C15.  On the historical-close path with a live exchange rate, the       *)
(* price is converted to EUR by currency: EUR is used as it is; GBP is     *)
(* multiplied by the EURGBP rate and CHF by the EURCHF rate; JPY is        *)
(* divided by the EURJPY rate; USD and an unrecognized or missing currency *)
(* are divided by the EURUSD rate (21600 with EURUSD 1.08 gives 20000).    *)
(***************************************************************************)
C15_PrimaryConversion ==
    [][ (StockCall /\ HasClose(last'.env.y) /\ RatesLive(last'.env.y)) =>
            LET y == last'.env.y
                p == Val(y.close)
            IN last'.price =
                 Some(IF IsCurrency(y.currency, "EUR") THEN p
                      ELSE IF IsCurrency(y.currency, "GBP")
                      THEN (p * RateOf(y, "EURGBP=X")) \div 100
                      ELSE IF IsCurrency(y.currency, "CHF")
                      THEN (p * RateOf(y, "EURCHF=X")) \div 100
                      ELSE IF IsCurrency(y.currency, "JPY")
                      THEN (p * 100) \div RateOf(y, "EURJPY=X")
                      ELSE (p * 100) \div RateOf(y, "EURUSD=X")) ]_vars

\* a close of 21600 in USD was resolved to 20000 with the live rate 1.08
C15_Witness ==
    /\ Returned("update_single_asset_price")
    /\ HasClose(last.env.y) /\ RatesLive(last.env.y)
    /\ last.env.y.currency = Some("USD")
    /\ last.price = Some(20000)
    /\ last.ret = TRUE

(***************************************************************************)
(* C16.  A crypto price resolution issues at most two price requests: the  *)
(* first only after the fixed pre-request delay, a second only if the      *)
(* first returned a rate-limit (429) response and only after the longer    *)
(* wait; if the second request is not a success the resolution fails       *)
(* without any further request.                                            *)
(***************************************************************************)
PriceTrace(trace) == SelectSeq(trace, LAMBDA x : x # "listing")

C16_CryptoRequests ==
    (Returned("update_single_asset_price") /\ last.asset_type = "crypto") =>
        LET tr == PriceTrace(last.trace)
            r1 == last.env.r1
            r2 == last.env.r2
        IN /\ tr \in { <<>>,
                       <<Sleep(RequestDelay), "request">>,
                       <<Sleep(RequestDelay), "request",
                         Sleep(RetryDelay), "request">> }
           /\ RetryDelay > RequestDelay
           /\ Len(tr) = 4 => (~r1.raised /\ r1.status = 429)
           /\ (Len(tr) = 4 /\ (r2.raised \/ r2.status # 200)) => last.ret = FALSE

\* a resolution was rate-limited twice: two requests, the second after the
\* longer wait, and the call has failed
C16_Witness ==
    /\ Returned("update_single_asset_price")
    /\ last.asset_type = "crypto"
    /\ Len(PriceTrace(last.trace)) = 4
    /\ last.env.r2.status = 429
    /\ last.ret = FALSE

(***************************************************************************)
(* C17.  If the exchange-rate lookup for a non-EUR price fails, whether it *)
(* returns no data or raises an error, the native price is still converted *)
(* with the fixed approximate rates (USD x 0.92, GBP x 1.17, otherwise     *)
(* x 0.92) and the resolution succeeds with that converted price.          *)
(***************************************************************************)
RatesFail(y) == \A p \in Pairs : y.rates[p].raised \/ IsNone(y.rates[p].close)

C17_FallbackRates ==
    [][ (/\ StockCall
         /\ HasClose(last'.env.y)
         /\ ~IsCurrency(last'.env.y.currency, "EUR")
         /\ RatesFail(last'.env.y)) =>
            LET y == last'.env.y
                p == Val(y.close)
            IN /\ last'.price =
                     Some(IF IsCurrency(y.currency, "GBP") THEN (p * 117) \div 100
                          ELSE (p * 92) \div 100)
               /\ last'.ret = TRUE ]_vars

(***************************************************************************)
(* C18.  When the historical-close lookup yields no price and a quote      *)
(* field (currentPrice, then regularMarketPrice, then bid) supplies the    *)
(* native price, the EUR price is the one the historical-close path gives  *)
(* for the same native price, currency and exchange rates.                 *)
(***************************************************************************)
FirstQuote(info) ==
    IF ~IsNone(info.currentPrice) THEN info.currentPrice
    ELSE IF ~IsNone(info.regularMarketPrice) THEN info.regularMarketPrice
    ELSE info.bid

C18_QuotePathConvertsAlike ==
    [][ (/\ StockCall
         /\ ~last'.env.y.raised
         /\ ~HasClose(last'.env.y)
         /\ ~IsNone(FirstQuote(last'.env.y.info))) =>
            LET y == last'.env.y
            IN last'.price = PrimaryPrice(FirstQuote(y.info), y.currency, y.rates) ]_vars

(***************************************************************************)
(* C19.  For an asset of type crypto whose symbol is not in the current    *)
(* symbol mapping, update_single_asset_price returns False without         *)
(* issuing a price request to either provider and without writing to the   *)
(* store.                                                                  *)
(***************************************************************************)
CurrentMapping(listing) ==
    GetAvailableCryptoSymbols(crypto_symbols_cache, cache_timestamp, now, listing).map

C19_UnmappedCryptoFails ==
    [][ (/\ Called("update_single_asset_price")
         /\ last'.asset_type = "crypto"
         /\ last'.symbol \notin DOMAIN CurrentMapping(last'.env.listing)) =>
            /\ last'.ret = FALSE
            /\ \A i \in DOMAIN last'.trace : last'.trace[i] \notin {"request", "ticker"}
            /\ UNCHANGED <<assets, transactions, price_history>> ]_vars

\* a crypto resolution of AAPL, which the fallback mapping does not hold,
\* has failed although the price request would have been answered
C19_Witness ==
    /\ Returned("update_single_asset_price")
    /\ last.asset_type = "crypto"
    /\ last.symbol = "AAPL"
    /\ last.env.listing.raised
    /\ last.env.r1 = Resp(200, Some(2))
    /\ last.ret = FALSE
    /\ last.trace = <<"listing">>
    /\ "AAPL" \in AssetSymbols(assets)

(***************************************************************************)
(* C20.  In a batch refresh the inter-request delay is inserted before the *)
(* resolution of every crypto asset except the first crypto asset in       *)
(* iteration order and never before a non-crypto asset: a batch with k     *)
(* crypto assets has exactly max(0, k-1) such delays, each before the      *)
(* price request of its crypto asset.                                      *)
(***************************************************************************)
CryptoRows(rows) == SelectSeq(rows, LAMBDA r : r.asset_type = "crypto")

\* the delays and the starts of the resolutions, as the claim orders them
RECURSIVE DelaysAndStarts(_, _)
DelaysAndStarts(rows, first_crypto_seen) ==
    IF rows = <<>> THEN <<>>
    ELSE LET crypto == Head(rows).asset_type = "crypto"
         IN (IF crypto /\ first_crypto_seen THEN <<Sleep(BatchDelay)>> ELSE <<>>)
            \o <<Head(rows).symbol>>
            \o DelaysAndStarts(Tail(rows), first_crypto_seen \/ crypto)

BatchDelays(trace) == SelectSeq(trace, LAMBDA x : x = Sleep(BatchDelay))

C20_BatchDelays ==
    [][ Called("update_asset_prices") =>
            LET tr == last'.trace
                k == Len(CryptoRows(assets))
            IN /\ SelectSeq(tr, LAMBDA x : x = Sleep(BatchDelay)
                                           \/ x \in AssetSymbols(assets))
                    = DelaysAndStarts(assets, FALSE)
               /\ Len(BatchDelays(tr)) = IF k = 0 THEN 0 ELSE k - 1 ]_vars

\* a batch over two crypto assets has returned: one delay, after the first
\* asset's price request and before the second asset's
C20_Witness ==
    /\ Returned("update_asset_prices")
    /\ Len(assets) = 2
    /\ Len(CryptoRows(assets)) = 2
    /\ Len(BatchDelays(last.trace)) = 1
    /\ \E i, j, k \in DOMAIN last.trace :
          /\ i < j /\ j < k
          /\ last.trace[i] = "request"
          /\ last.trace[j] = Sleep(BatchDelay)
          /\ last.trace[k] = "request"

(***************************************************************************)
(* C21.  In a mapping built from a successfully fetched coin listing every *)
(* symbol of the priority table maps to its priority id, whatever the      *)
(* listing holds and in whatever order, and a non-priority symbol of the   *)
(* bulk mapping (at most 10 characters, alphanumeric) that occurs several  *)
(* times in the listing maps to the id of its first occurrence.            *)
(***************************************************************************)
BuiltFromListing ==
    /\ Returned("get_available_crypto_symbols")
    /\ last.fetched
    /\ ~last.listing.raised /\ last.listing.status = 200

FirstOccurrence(coins, symbol) ==
    LET i == CHOOSE i \in DOMAIN coins :
                 /\ Upper(coins[i].symbol) = symbol
                 /\ \A j \in 1..(i - 1) : Upper(coins[j].symbol) # symbol
    IN coins[i].id

Fetched == ~IsNone(cache_timestamp)
Age == now - Val(cache_timestamp)

(***************************************************************************)
(* C22.  The mapping is refreshed from the coin listing at most once per   *)
(* hour: once a listing fetch has succeeded, every call of                 *)
(* get_available_crypto_symbols made less than one hour later returns the  *)
(* cached mapping without a listing request.                               *)
(***************************************************************************)
C22_CacheServedWithinTheHour ==
    [][ (Called("get_available_crypto_symbols") /\ Fetched /\ Age < 3600) =>
            /\ last'.fetched = FALSE
            /\ last'.map = Val(crypto_symbols_cache)
            /\ UNCHANGED <<crypto_symbols_cache, cache_timestamp>> ]_vars

\* half an hour after a fetch a call was answered from the cache, although
\* the listing would have failed
C22_Witness ==
    /\ Returned("get_available_crypto_symbols")
    /\ Fetched /\ Age = 1800
    /\ last.fetched = FALSE
    /\ last.listing.raised
    /\ last.map = Val(crypto_symbols_cache)

C29_ExpiredCacheNotServed ==
    [][ (Called("get_available_crypto_symbols") /\ Fetched /\ Age >= 3600) =>
            last'.fetched = TRUE ]_vars

(***************************************************************************)
(* C25.  In every state reached by a sequence of operations of the store,  *)
(* a manual price update or a single refresh for an unregistered or        *)
(* lower-case symbol included, every price-history row references an       *)
(* asset that exists.                                                      *)
(***************************************************************************)
C25_HistoryReferencesAssets ==
    \A i \in DOMAIN price_history :
        price_history[i].asset_symbol \in AssetSymbols(assets)

(***************************************************************************)
(* C27.  In every state reached by add_asset, refreshes, manual updates    *)
(* and delete_asset, an asset with at least one price-history row has the  *)
(* price of its most recently appended price-history row as current_price. *)
(***************************************************************************)
C27_CurrentPriceIsLatestHistory ==
    \A i \in DOMAIN assets :
        LET rows == TxOf(price_history, assets[i].symbol)
        IN rows # <<>> => assets[i].current_price = rows[Len(rows)].price

(***************************************************************************)
(* C30.  In every state reached through the operations of the store        *)
(* (add_asset, automatic refresh, manual price update with any price),     *)
(* every current_price is >= 0 and every price-history price is > 0.       *)
(***************************************************************************)
C30_PricesInRange ==
    /\ \A i \in DOMAIN assets : assets[i].current_price >= 0
    /\ \A i \in DOMAIN price_history : price_history[i].price > 0

\* the totals the summary reports for one symbol
TotalsOf(summary, sym) ==
    LET rows == SelectSeq(summary, LAMBDA h : h.symbol = sym)
    IN [i \in DOMAIN rows |-> <<rows[i].total_amount, rows[i].total_invested>>]

\* add_asset is called for a symbol that is registered
Reregistered == Called("add_asset") /\ Upper(last'.symbol) \in AssetSymbols(assets)


\* C28 as stated: the price-history rows of the asset are the same rows
\* after the call as before it
C28_ReregisterLeavesRows ==
    [][ Reregistered =>
            LET sym == Upper(last'.symbol)
            IN /\ TxOf(transactions', sym) = TxOf(transactions, sym)
               /\ TxOf(price_history', sym) = TxOf(price_history, sym)
               /\ TotalsOf(Summary', sym) = TotalsOf(Summary, sym) ]_vars

(***************************************************************************)
(* C28.  Re-registering a registered symbol with add_asset leaves every    *)
(* transaction row and every existing price-history row of the asset as    *)
(* it was (the refresh of the call appends one price-history row when it   *)
(* succeeds, none when it fails), so the total_amount and total_invested   *)
(* the summary reports for the asset are the same before and after.        *)
(***************************************************************************)
C28_ReregisterKeepsRows ==
    [][ Reregistered =>
            LET sym == Upper(last'.symbol)
                before == TxOf(price_history, sym)
                after == TxOf(price_history', sym)
            IN /\ TxOf(transactions', sym) = TxOf(transactions, sym)
               /\ Len(before) <= Len(after)
               /\ SubSeq(after, 1, Len(before)) = before
               /\ Len(after) = Len(before) + (IF last'.refreshed THEN 1 ELSE 0)
               /\ TotalsOf(Summary', sym) = TotalsOf(Summary, sym) ]_vars

\* BTC, which has a holding and a price-history row, has been registered
\* again, and the refresh of that call appended a second price-history row
C28_Witness ==
    /\ Returned("add_asset")
    /\ last.symbol = "BTC"
    /\ last.refreshed = TRUE
    /\ TxOf(transactions, "BTC") # <<>>
    /\ Len(TxOf(price_history, "BTC")) = 2
    /\ Len(TotalsOf(Summary, "BTC")) = 1

\* what the threads have committed, and the price writes among it
Commits ==
    UNION { {[op |-> threads[p].op, symbol |-> threads[p].commits[i].symbol,
              price |-> threads[p].commits[i].price,
              at |-> threads[p].commits[i].at] : i \in DOMAIN threads[p].commits}
            : p \in Procs }
WritesOf(sym) == { c \in Commits : c.op \in PriceOps /\ c.symbol = sym }
LastWrite(sym) == CHOOSE c \in WritesOf(sym) : \A d \in WritesOf(sym) : d.at <= c.at

\* thread p commits in this step
Committing(p) == threads[p].pc = "commit" /\ threads'[p].pc # "commit"

\* the calls have completed, and every asset they wrote a price for has the
\* price of the write that committed last
LastWriteStands ==
    AllDone =>
        \A i \in DOMAIN assets :
            WritesOf(assets[i].symbol) # {} =>
                assets[i].current_price = Val(LastWrite(assets[i].symbol).price)

(***************************************************************************)
(* C24.  The price write of a refresh or of a manual update is one         *)
(* committed unit, also when two of them on the same asset overlap: the    *)
(* committed tables change only when a call commits, the commit of a       *)
(* price write sets current_price and adds exactly one price-history row   *)
(* of that price in the same step, and when the calls have completed the   *)
(* current_price of an asset they wrote is the price of the write that     *)
(* committed last.                                                         *)
(***************************************************************************)
C24_PriceWriteIsOneUnit ==
    [][ /\ \A p \in Procs :
              (Committing(p) /\ threads[p].op \in PriceOps) =>
                  LET sym == StatementSymbol(threads[p])
                      price == Val(threads[p].price)
                  IN /\ assets' = UpdateCurrentPrice(assets, sym, price)
                     /\ price_history' = InsertPriceHistory(price_history, sym, price)
                     /\ UNCHANGED transactions
        /\ (threads' # threads /\ ~\E p \in Procs : Committing(p)) =>
              UNCHANGED <<assets, transactions, price_history>>
        /\ LastWriteStands' ]_vars

\* a manual update of AAPL committed first and a refresh of AAPL, called
\* before that commit, committed second: AAPL has the price of the refresh
C24_Witness ==
    /\ AllDone
    /\ \E p, q \in Procs :
          /\ threads[p].op = "update_asset_values_manually"
          /\ threads[q].op = "update_single_asset_price"
          /\ Len(threads[p].commits) = 1 /\ Len(threads[q].commits) = 1
          /\ threads[q].began < threads[p].commits[1].at
          /\ threads[p].commits[1].at < threads[q].commits[1].at
          /\ threads[q].price = Some(3)
    /\ \E i \in DOMAIN assets :
          assets[i].symbol = "AAPL" /\ assets[i].current_price = 3
    /\ Len(price_history) >= 2
    /\ price_history[Len(price_history) - 1] = [asset_symbol |-> "AAPL", price |-> 1]
    /\ price_history[Len(price_history)] = [asset_symbol |-> "AAPL", price |-> 3]

(***************************************************************************)
(* C26.  When delete_asset(s) has run together with add_transaction for s  *)
(* or with a batch refresh, whatever the interleaving of their statements, *)
(* then once both have completed and delete_asset has returned success no  *)
(* transaction row and no price-history row of s remains.                  *)
(***************************************************************************)
C26_NoOrphanAfterDelete ==
    (/\ AllDone
     /\ \E p, q \in Procs :
           /\ threads[p].op = "delete_asset"
           /\ threads[p].ret = Some(TRUE)
           /\ threads[q].op \in {"add_transaction", "update_asset_prices"})
    => \A s \in ThreadSymbols :
           /\ TxOf(transactions, s) = <<>>
           /\ TxOf(price_history, s) = <<>>

====
